---------------------------- MODULE Spec2Model ----------------------------
(***************************************************************************)
(* Model of pdf_to_gpt_text.py: the two-stage text extraction              *)
(* (extract_text_from_pdf), the filename parser (parse_filename) and the   *)
(* per-run classification / assembly done by main.                         *)
(*                                                                         *)
(* A Python str is a sequence of one-character strings.  The third-party   *)
(* libraries (pdfplumber, pdf2image, pytesseract) are the environment: a   *)
(* PDF is described by what each library call does on it.                  *)
(***************************************************************************)
EXTENDS Integers, Sequences, FiniteSets, TLC

VARIABLES
    file_bytes,         \* extract_text_from_pdf: the PDF handed to the call
    ex,                 \* extract_text_from_pdf: locals and position of the call
    filename,           \* parse_filename: its argument
    parsed,             \* parse_filename: its return value (<<>> before the call)
    uploaded_files,     \* main: st.file_uploader's result
    pc,                 \* main: position in the button handler
    idx,                \* main: index of the next file of the per-file loop
    client_id_global,   \* main
    docs,               \* main
    warnings,           \* main: the st.warning messages issued so far
    payslips,           \* main
    statements,         \* main
    others,             \* main
    structured_blocks,  \* main
    final_text,         \* main
    file_name           \* main: st.download_button's file_name (<<>> before)

extractVars == <<file_bytes, ex>>
parseVars   == <<filename, parsed>>
mainVars    == <<uploaded_files, pc, idx, client_id_global, docs, warnings,
                 payslips, statements, others, structured_blocks, final_text,
                 file_name>>
vars        == <<file_bytes, ex, filename, parsed, uploaded_files, pc, idx,
                 client_id_global, docs, warnings, payslips, statements,
                 others, structured_blocks, final_text, file_name>>

----------------------------------------------------------------------------
(* Bounds of the model.                                                    *)

MaxPages == 3

MaxImages == 2

MaxNameLen == 7

MaxFiles == 3

----------------------------------------------------------------------------
(* Python str operations.                                                  *)

\* A string literal as a sequence of characters.
Chars(s) == [i \in 1..Len(s) |-> SubSeq(s, i, i)]

Rep(c, n) == [i \in 1..n |-> c]

NL == <<"\n">>

\* U+2013 EN DASH, one character of the f-strings of main.
EnDash == <<"U+2013">>

\* The printable ASCII characters in code-point order, from U+0020.
\* (U+0060 GRAVE ACCENT is written as a named character.)
Ascii ==
    Chars(" !\"#$%&'()*+,-./0123456789:;<=>?@ABCDEFGHIJKLMNOPQRSTUVWXYZ[\\]^_")
        \o <<"U+0060">> \o Chars("abcdefghijklmnopqrstuvwxyz{|}~")

\* ord(c)
Ord(c) ==
    IF c = "\t" THEN 9
    ELSE IF c = "\n" THEN 10
    ELSE IF c = "\f" THEN 12
    ELSE IF c = "\r" THEN 13
    ELSE IF c = "U+2013" THEN 8211
    ELSE 31 + (CHOOSE i \in 1..Len(Ascii) : Ascii[i] = c)

\* The characters str.strip() removes.
Whitespace == {" ", "\t", "\n", "\r", "\f"}

RECURSIVE LStrip(_)
LStrip(s) ==
    IF s # <<>> /\ Head(s) \in Whitespace THEN LStrip(Tail(s)) ELSE s

RECURSIVE RStrip(_)
RStrip(s) ==
    IF s # <<>> /\ s[Len(s)] \in Whitespace
    THEN RStrip(SubSeq(s, 1, Len(s) - 1))
    ELSE s

\* s.strip()
Strip(s) == RStrip(LStrip(s))

\* sep.join(parts)
RECURSIVE Join(_, _)
Join(sep, parts) ==
    IF parts = <<>> THEN <<>>
    ELSE IF Len(parts) = 1 THEN parts[1]
    ELSE parts[1] \o sep \o Join(sep, Tail(parts))

\* "".join(parts)
RECURSIVE Concat(_)
Concat(parts) ==
    IF parts = <<>> THEN <<>> ELSE Head(parts) \o Concat(Tail(parts))

\* s.split(c): the segments of s between the occurrences of c.
RECURSIVE Split(_, _)
Split(s, c) ==
    IF \E i \in 1..Len(s) : s[i] = c
    THEN LET i == CHOOSE j \in 1..Len(s) :
                      s[j] = c /\ \A m \in 1..(j - 1) : s[m] # c
         IN  <<SubSeq(s, 1, i - 1)>> \o Split(SubSeq(s, i + 1, Len(s)), c)
    ELSE <<s>>

\* s.rsplit(c, 1)[0]: s up to its last c, s itself when it holds no c.
RSplit1Head(s, c) ==
    IF \E i \in 1..Len(s) : s[i] = c
    THEN LET i == CHOOSE j \in 1..Len(s) :
                      s[j] = c /\ \A m \in (j + 1)..Len(s) : s[m] # c
         IN  SubSeq(s, 1, i - 1)
    ELSE s

\* a < b on str: by code point at the first difference, a proper prefix first.
RECURSIVE StrLess(_, _)
StrLess(a, b) ==
    IF b = <<>> THEN FALSE
    ELSE IF a = <<>> THEN TRUE
    ELSE IF Head(a) = Head(b) THEN StrLess(Tail(a), Tail(b))
    ELSE Ord(Head(a)) < Ord(Head(b))

\* str(n) for n >= 0
RECURSIVE Str(_)
Str(n) ==
    IF n < 10 THEN <<Chars("0123456789")[n + 1]>>
    ELSE Str(n \div 10) \o <<Chars("0123456789")[(n % 10) + 1]>>

----------------------------------------------------------------------------
(* extract_text_from_pdf                                                   *)

Threshold == 50

\* What a library call gives: a str, None, or an exception.
Raise == [kind |-> "raise"]
None  == [kind |-> "none"]
Text(s) == [kind |-> "str", val |-> s]

\* v or ""
OrEmpty(v) == IF v.kind = "str" THEN v.val ELSE <<>>

\* The locals at the start of a call.
ExStart ==
    [ pc                   |-> "open",
      text_chunks          |-> <<>>,
      k                    |-> 0,
      text_from_text_layer |-> <<>>,
      ocr_chunks           |-> <<>>,
      returned             |-> FALSE,
      raised               |-> FALSE,
      result               |-> <<>>,
      raster_calls         |-> 0,      \* calls of convert_from_bytes
      ocr_calls            |-> 0 ]     \* calls of pytesseract.image_to_string

\* return v
Return(f, v) == [f EXCEPT !.pc = "done", !.returned = TRUE, !.result = v]

\* The except clause of the text-layer stage.
\* (Variant: the chunks collected before the failure are kept.)
TextStageExcept_KeepChunks(f) == [f EXCEPT !.pc = "join"]
TextStageExcept(f) == [f EXCEPT !.text_chunks = <<>>, !.pc = "join"]

\* pdfplumber.open(...)
OpenPdf(f, p) ==
    IF p.open THEN [f EXCEPT !.pc = "text_pages", !.k = 1]
    ELSE TextStageExcept(f)

\* One iteration of the loop over pdf.pages.
ExtractPage(f, p) ==
    LET o == p.pages[f.k] IN
    IF o.kind = "raise" THEN TextStageExcept(f)
    ELSE LET page_text == OrEmpty(o) IN
         [f EXCEPT !.text_chunks = IF Strip(page_text) # <<>>
                                   THEN Append(@, page_text) ELSE @,
                   !.k = @ + 1]

\* The loop over pdf.pages is exhausted.
ClosePdf(f) == [f EXCEPT !.pc = "join"]

\* "We got a reasonable amount of text."
\* (Variants: >= in place of >, and a higher threshold.)
UseTextLayer_Ge(t) == Len(t) >= Threshold
UseTextLayer_Far(t) == Len(t) > Threshold + 10
UseTextLayer(t) == Len(t) > Threshold

\* The join, the strip and the threshold test.
JoinTextLayer(f) ==
    LET t == Strip(Join(NL, f.text_chunks))
        g == [f EXCEPT !.text_from_text_layer = t]
    IN  IF UseTextLayer(t) THEN Return(g, t)
        ELSE [g EXCEPT !.pc = "raster", !.ocr_chunks = <<>>]

\* The except clause of the OCR stage: return text_from_text_layer or "".
\* (Variants: the exception is re-raised; the OCR text so far is returned too.)
OcrStageExcept_Propagate(f) == [f EXCEPT !.pc = "done", !.raised = TRUE]
OcrStageExcept_Partial(f) ==
    Return(f, f.text_from_text_layer \o Join(NL, f.ocr_chunks))
OcrStageExcept(f) ==
    Return(f, IF f.text_from_text_layer # <<>>
              THEN f.text_from_text_layer ELSE <<>>)

\* convert_from_bytes(file_bytes)
Rasterize(f, p) ==
    LET g == [f EXCEPT !.raster_calls = @ + 1] IN
    IF p.raster THEN [g EXCEPT !.pc = "ocr_pages", !.k = 1]
    ELSE OcrStageExcept(g)

\* One iteration of the loop over images.
OcrPage(f, p) ==
    LET g == [f EXCEPT !.ocr_calls = @ + 1]
        o == p.ocr[f.k]
    IN  IF o.kind = "raise" THEN OcrStageExcept(g)
        ELSE [g EXCEPT !.ocr_chunks = Append(@, OrEmpty(o)), !.k = @ + 1]

\* The final return.
ReturnOcr(f) == Return(f, Join(NL, f.ocr_chunks))

\* The next step of a call on PDF p.
ExStep(f, p) ==
    CASE f.pc = "open" -> OpenPdf(f, p)
      [] f.pc = "text_pages" /\ f.k <= Len(p.pages) -> ExtractPage(f, p)
      [] f.pc = "text_pages" /\ f.k > Len(p.pages) -> ClosePdf(f)
      [] f.pc = "join" -> JoinTextLayer(f)
      [] f.pc = "raster" -> Rasterize(f, p)
      [] f.pc = "ocr_pages" /\ f.k <= Len(p.ocr) -> OcrPage(f, p)
      [] f.pc = "ocr_pages" /\ f.k > Len(p.ocr) -> ReturnOcr(f)
      [] OTHER -> f

\* The whole call, as main makes it.
RECURSIVE ExRun(_, _)
ExRun(f, p) == IF f.pc = "done" THEN f ELSE ExRun(ExStep(f, p), p)

extract_text_from_pdf(p) == ExRun(ExStart, p)

(* The PDFs of the model. *)

A25 == Rep("a", 25)
B24 == <<" ">> \o Rep("b", 24)
Blank == <<" ", "\n">>

PageOutcomes == {Raise, None, Text(Blank), Text(A25), Text(B24)}

OcrOutcomes == {Raise, None, Text(<<>>), Text(Chars(" x\n"))}

RECURSIVE SeqsUpTo(_, _)
SeqsUpTo(S, n) ==
    IF n = 0 THEN {<<>>}
    ELSE LET shorter == SeqsUpTo(S, n - 1) IN
         shorter \cup {Append(s, x) : s \in {t \in shorter : Len(t) = n - 1},
                                      x \in S}

\* A PDF that does not open has no pages to read; one that does not rasterize
\* has no images.
Pdfs ==
    { [open |-> o, pages |-> ps, raster |-> r, ocr |-> os] :
        o \in BOOLEAN, ps \in SeqsUpTo(PageOutcomes, MaxPages),
        r \in BOOLEAN, os \in SeqsUpTo(OcrOutcomes, MaxImages) }

ValidPdf(p) == (~p.open => p.pages = <<>>) /\ (~p.raster => p.ocr = <<>>)

ParseIdle == filename = <<>> /\ parsed = <<>>

MainIdle ==
    /\ uploaded_files = <<>>
    /\ pc = "off"
    /\ idx = 0
    /\ client_id_global = <<>>
    /\ docs = <<>>
    /\ warnings = <<>>
    /\ payslips = <<>>
    /\ statements = <<>>
    /\ others = <<>>
    /\ structured_blocks = <<>>
    /\ final_text = <<>>
    /\ file_name = <<>>

ExtractIdle == file_bytes = [open |-> FALSE, pages |-> <<>>, raster |-> FALSE, ocr |-> <<>>] /\ ex = ExStart

InitExtract ==
    /\ file_bytes \in {p \in Pdfs : ValidPdf(p)}
    /\ ex = ExStart
    /\ ParseIdle
    /\ MainIdle

OpenPdfStep ==
    /\ ex.pc = "open"
    /\ ex' = OpenPdf(ex, file_bytes)
    /\ UNCHANGED <<file_bytes, parseVars, mainVars>>

ExtractPageStep ==
    /\ ex.pc = "text_pages" /\ ex.k <= Len(file_bytes.pages)
    /\ ex' = ExtractPage(ex, file_bytes)
    /\ UNCHANGED <<file_bytes, parseVars, mainVars>>

ClosePdfStep ==
    /\ ex.pc = "text_pages" /\ ex.k > Len(file_bytes.pages)
    /\ ex' = ClosePdf(ex)
    /\ UNCHANGED <<file_bytes, parseVars, mainVars>>

JoinTextLayerStep ==
    /\ ex.pc = "join"
    /\ ex' = JoinTextLayer(ex)
    /\ UNCHANGED <<file_bytes, parseVars, mainVars>>

RasterizeStep ==
    /\ ex.pc = "raster"
    /\ ex' = Rasterize(ex, file_bytes)
    /\ UNCHANGED <<file_bytes, parseVars, mainVars>>

OcrPageStep ==
    /\ ex.pc = "ocr_pages" /\ ex.k <= Len(file_bytes.ocr)
    /\ ex' = OcrPage(ex, file_bytes)
    /\ UNCHANGED <<file_bytes, parseVars, mainVars>>

ReturnOcrStep ==
    /\ ex.pc = "ocr_pages" /\ ex.k > Len(file_bytes.ocr)
    /\ ex' = ReturnOcr(ex)
    /\ UNCHANGED <<file_bytes, parseVars, mainVars>>

NextExtract ==
    \/ OpenPdfStep
    \/ ExtractPageStep
    \/ ClosePdfStep
    \/ JoinTextLayerStep
    \/ RasterizeStep
    \/ OcrPageStep
    \/ ReturnOcrStep

SpecExtract == InitExtract /\ [][NextExtract]_vars

----------------------------------------------------------------------------
(* parse_filename                                                          *)

\* (Variant: the name is cut at its first '.'.)
parse_filename_FirstDot(fn) ==
    LET name  == Split(fn, ".")[1]
        parts == Split(name, "_")
    IN  IF Len(parts) < 3 THEN <<<<>>, Chars("unknown"), name>>
        ELSE <<parts[1], parts[2], Join(<<"_">>, SubSeq(parts, 3, Len(parts)))>>
parse_filename(fn) ==
    LET name  == RSplit1Head(fn, ".")
        parts == Split(name, "_")
    IN  IF Len(parts) < 3 THEN <<<<>>, Chars("unknown"), name>>
        ELSE <<parts[1], parts[2], Join(<<"_">>, SubSeq(parts, 3, Len(parts)))>>

(* The filenames of the model: every string over a letter, '_' and '.' up  *)
(* to MaxNameLen characters, and the filenames the documentation names.    *)

NameAlphabet == {"a", "_", "."}

Example1 == Chars("SC_payslip_2025-03.pdf")
Example2 == Chars("SC_statement_2025-03-08_2025-04-08.pdf")
Example3 == Chars("randomfile.pdf")

Filenames ==
    SeqsUpTo(NameAlphabet, MaxNameLen) \cup {Example1, Example2, Example3}

InitParse ==
    /\ filename \in Filenames
    /\ parsed = <<>>
    /\ ExtractIdle
    /\ MainIdle

ParseStep ==
    /\ parsed = <<>>
    /\ parsed' = parse_filename(filename)
    /\ UNCHANGED <<filename, extractVars, mainVars>>

NextParse == ParseStep

SpecParse == InitParse /\ [][NextParse]_vars

----------------------------------------------------------------------------
(* main                                                                    *)

UnknownClient == Chars("UNKNOWN_CLIENT")

\* The if / elif on client_id of the per-file loop: the new client_id_global
\* and whether st.warning is called.
\* (Variants: the last non-empty client_id wins; the elif branch is missing.)
ClientStep_LastWins(g, c) ==
    IF c # <<>> THEN [global |-> c, warn |-> g # <<>> /\ c # g]
    ELSE [global |-> g, warn |-> FALSE]
ClientStep_NoWarn(g, c) ==
    IF c # <<>> /\ g = <<>> THEN [global |-> c, warn |-> FALSE]
    ELSE [global |-> g, warn |-> FALSE]
ClientStep(g, c) ==
    IF c # <<>> /\ g = <<>> THEN [global |-> c, warn |-> FALSE]
    ELSE IF c # <<>> /\ g # <<>> /\ c # g THEN [global |-> g, warn |-> TRUE]
    ELSE [global |-> g, warn |-> FALSE]

\* The message of st.warning.
MixedWarning(g, c) ==
    Chars("Mixed client IDs detected in filenames: ") \o g \o Chars(" and ")
        \o c \o Chars(".")

\* The three list comprehensions over docs.
IsPayslip(d) == d.doc_type = Chars("payslip")
IsStatement(d) == d.doc_type = Chars("statement")
\* (Variant: others is every document that is not a payslip.)
IsOther_NotPayslip(d) == d.doc_type # Chars("payslip")
IsOther(d) == d.doc_type \notin {Chars("payslip"), Chars("statement")}

\* list.sort(key=lambda x: x["label"]): ascending, stable.
RECURSIVE InsertByLabel(_, _)
InsertByLabel(sorted, d) ==
    IF sorted = <<>> THEN <<d>>
    ELSE IF StrLess(d.label, Head(sorted).label) THEN <<d>> \o sorted
    ELSE <<Head(sorted)>> \o InsertByLabel(Tail(sorted), d)

RECURSIVE SortFrom(_, _)
SortFrom(sorted, rest) ==
    IF rest = <<>> THEN sorted
    ELSE SortFrom(InsertByLabel(sorted, Head(rest)), Tail(rest))

\* (Variant: the sort is missing.)
SortByLabel_Unsorted(ds) == ds
SortByLabel(ds) == SortFrom(<<>>, ds)

\* One block of the artifact.
Block(kind, n, d) ==
    Chars("\n\n[") \o kind \o Chars(" ") \o Str(n) \o Chars(" ") \o EnDash
        \o Chars(" LABEL: ") \o d.label \o Chars(" ") \o EnDash
        \o Chars(" FILE: ") \o d.filename \o Chars("]\n") \o d.text \o NL

\* for idx, d in enumerate(ds, start=1): the blocks of one group.
Blocks(kind, ds) == [n \in 1..Len(ds) |-> Block(kind, n, ds[n])]

HeaderBlock(g) == Chars("CLIENT_ID: ") \o g \o NL

DownloadName(g) == g \o Chars("_precheck_input.txt")

(* The uploads of the model. *)

PdfText ==
    [open |-> TRUE, pages |-> <<Text(A25), Text(A25)>>,
     raster |-> FALSE, ocr |-> <<>>]
PdfScan ==
    [open |-> TRUE, pages |-> <<None>>,
     raster |-> TRUE, ocr |-> <<Text(Chars(" x\n")), Text(<<>>)>>]
PdfBroken ==
    [open |-> FALSE, pages |-> <<>>, raster |-> FALSE, ocr |-> <<>>]

File(n, p) == [name |-> Chars(n), pdf |-> p]

Files ==
    { File("SC_payslip_2025-04.pdf", PdfText),
      File("SC_payslip_2025-02.pdf", PdfScan),
      File("SC_payslip_2025-03.pdf", PdfText),
      File("JD_payslip_2025-02.pdf", PdfBroken),
      File("SC_statement_2025-03-08_2025-04-08.pdf", PdfText),
      File("JD_statement_2025-02-09_2025-03-07.pdf", PdfScan),
      File("randomfile.pdf", PdfBroken),
      File("_Payslip_x.pdf", PdfScan) }

InitMain ==
    /\ uploaded_files \in SeqsUpTo(Files, MaxFiles)
    /\ pc = "start"
    /\ idx = 0
    /\ client_id_global = <<>>
    /\ docs = <<>>
    /\ warnings = <<>>
    /\ payslips = <<>>
    /\ statements = <<>>
    /\ others = <<>>
    /\ structured_blocks = <<>>
    /\ final_text = <<>>
    /\ file_name = <<>>
    /\ ExtractIdle
    /\ ParseIdle

\* if not uploaded_files: st.info(...); return
NoFiles ==
    /\ pc = "start"
    /\ uploaded_files = <<>>
    /\ pc' = "returned"
    /\ UNCHANGED <<uploaded_files, idx, client_id_global, docs, warnings,
                   payslips, statements, others, structured_blocks,
                   final_text, file_name, extractVars, parseVars>>

\* The button is pressed.
Generate ==
    /\ pc = "start"
    /\ uploaded_files # <<>>
    /\ client_id_global' = <<>>
    /\ docs' = <<>>
    /\ idx' = 1
    /\ pc' = "loop"
    /\ UNCHANGED <<uploaded_files, warnings, payslips, statements, others,
                   structured_blocks, final_text, file_name, extractVars,
                   parseVars>>

\* One iteration of the per-file loop.
ProcessFile ==
    /\ pc = "loop"
    /\ idx <= Len(uploaded_files)
    /\ LET file == uploaded_files[idx]
           p    == parse_filename(file.name)
           cs   == ClientStep(client_id_global, p[1])
           call == extract_text_from_pdf(file.pdf)
       IN  /\ client_id_global' = cs.global
           /\ warnings' = IF cs.warn
                          THEN Append(warnings,
                                      MixedWarning(client_id_global, p[1]))
                          ELSE warnings
           /\ IF call.raised
              THEN /\ pc' = "aborted"
                   /\ UNCHANGED <<docs, idx>>
              ELSE /\ docs' = Append(docs, [ filename  |-> file.name,
                                             client_id |-> p[1],
                                             doc_type  |-> p[2],
                                             label     |-> p[3],
                                             text      |-> call.result ])
                   /\ idx' = idx + 1
                   /\ pc' = "loop"
    /\ UNCHANGED <<uploaded_files, payslips, statements, others,
                   structured_blocks, final_text, file_name, extractVars,
                   parseVars>>

\* After the loop: if not client_id_global: client_id_global = "UNKNOWN_CLIENT"
EndLoop ==
    /\ pc = "loop"
    /\ idx > Len(uploaded_files)
    /\ client_id_global' = IF client_id_global = <<>> THEN UnknownClient
                           ELSE client_id_global
    /\ pc' = "partition"
    /\ UNCHANGED <<uploaded_files, idx, docs, warnings, payslips, statements,
                   others, structured_blocks, final_text, file_name,
                   extractVars, parseVars>>

\* The header block, the three groups and the two sorts.
Partition ==
    /\ pc = "partition"
    /\ structured_blocks' = <<HeaderBlock(client_id_global)>>
    /\ payslips' = SortByLabel(SelectSeq(docs, IsPayslip))
    /\ statements' = SortByLabel(SelectSeq(docs, IsStatement))
    /\ others' = SelectSeq(docs, IsOther)
    /\ pc' = "render"
    /\ UNCHANGED <<uploaded_files, idx, client_id_global, docs, warnings,
                   final_text, file_name, extractVars, parseVars>>

\* The three enumerate loops, the join and the download button.
Render ==
    /\ pc = "render"
    /\ LET blocks == structured_blocks
                        \o Blocks(Chars("PAYSLIP"), payslips)
                        \o Blocks(Chars("BANK STATEMENT"), statements)
                        \o Blocks(Chars("OTHER DOC"), others)
       IN  /\ structured_blocks' = blocks
           /\ final_text' = Concat(blocks)
    /\ file_name' = DownloadName(client_id_global)
    /\ pc' = "done"
    /\ UNCHANGED <<uploaded_files, idx, client_id_global, docs, warnings,
                   payslips, statements, others, extractVars, parseVars>>

NextMain ==
    \/ NoFiles
    \/ Generate
    \/ ProcessFile
    \/ EndLoop
    \/ Partition
    \/ Render

SpecMain == InitMain /\ [][NextMain]_vars

----------------------------------------------------------------------------
(* Properties of extract_text_from_pdf, checked under SpecExtract.         *)

CharSet == {Ascii[i] : i \in 1..Len(Ascii)} \cup Whitespace \cup {"U+2013"}

IsStr(v) == v \in Seq(CharSet)

HasPrefix(s, pre) == Len(pre) <= Len(s) /\ SubSeq(s, 1, Len(pre)) = pre

ExDone == ex.pc = "done"

\* What the libraries do on PDF p, read off its description.
TextFails(p) == ~p.open \/ \E k \in 1..Len(p.pages) : p.pages[k] = Raise

OcrFails(p) == ~p.raster \/ \E k \in 1..Len(p.ocr) : p.ocr[k] = Raise

NonBlank(t) == Strip(t) # <<>>

\* The newline-joined, trimmed text layer of p (empty when the stage fails).
TextLayer(p) ==
    IF TextFails(p) THEN <<>>
    ELSE Strip(Join(NL, SelectSeq([k \in 1..Len(p.pages) |->
                                      OrEmpty(p.pages[k])], NonBlank)))

OcrTexts(p) == [k \in 1..Len(p.ocr) |-> OrEmpty(p.ocr[k])]

OcrAllEmpty(p) == \A k \in 1..Len(p.ocr) : OrEmpty(p.ocr[k]) = <<>>

\* C1 as stated: the call never raises and returns a string, which is the
\* empty string when neither the text layer nor the OCR yields content.
C1_Original ==
    ExDone =>
        /\ ex.returned /\ ~ex.raised /\ IsStr(ex.result)
        /\ (TextLayer(file_bytes) = <<>>
              /\ (OcrFails(file_bytes) \/ OcrAllEmpty(file_bytes)))
            => ex.result = <<>>

\* C1 amended: the call never raises, can always take its next step until it
\* has returned, and returns a string; with no text layer the result is the
\* empty string when the OCR stage fails, has no page or has one page with
\* empty output, and is n-1 newlines when OCR succeeds on n >= 1 pages with
\* every output empty.
C1_NeverRaises ==
    /\ ~ex.raised
    /\ ~ExDone => ENABLED NextExtract
    /\ ExDone =>
        /\ ex.returned /\ IsStr(ex.result)
        /\ (TextLayer(file_bytes) = <<>>
              /\ (OcrFails(file_bytes) \/ Len(file_bytes.ocr) = 0))
            => ex.result = <<>>
        /\ (TextLayer(file_bytes) = <<>> /\ ~OcrFails(file_bytes)
              /\ OcrAllEmpty(file_bytes) /\ Len(file_bytes.ocr) >= 1)
            => ex.result = Rep("\n", Len(file_bytes.ocr) - 1)

\* Both stages fail, the OCR stage at its second page: the call returns "".
C1_Witness ==
    /\ ExDone /\ ex.returned /\ ex.result = <<>>
    /\ TextFails(file_bytes)
    /\ file_bytes.ocr = <<Text(Chars(" x\n")), Raise>>

\* C2: a trimmed text layer of more than 50 characters is returned as it is,
\* and neither rasterization nor OCR is ever started in that call.
C2_TextLayerWins ==
    Len(TextLayer(file_bytes)) > Threshold =>
        /\ ex.raster_calls = 0 /\ ex.ocr_calls = 0
        /\ ex.pc \notin {"raster", "ocr_pages"}
        /\ ExDone => ex.returned /\ ex.result = TextLayer(file_bytes)

\* A text layer of exactly 51 characters has been returned.
C2_Witness ==
    /\ ExDone /\ ex.returned
    /\ Len(TextLayer(file_bytes)) = Threshold + 1
    /\ ex.result = TextLayer(file_bytes)
    /\ ex.raster_calls = 0

\* C3: with a trimmed text layer of at most 50 characters and an OCR stage
\* that completes, the result is the per-page OCR outputs joined with a
\* newline in page order, and nothing of the text layer.
C3_OcrReplacesShortText ==
    (ExDone /\ Len(TextLayer(file_bytes)) <= Threshold /\ ~OcrFails(file_bytes))
        => ex.returned /\ ex.result = Join(NL, OcrTexts(file_bytes))

\* A text layer of exactly 50 characters is replaced by two OCR outputs.
C3_Witness ==
    /\ ExDone /\ ex.returned
    /\ Len(TextLayer(file_bytes)) = Threshold
    /\ file_bytes.raster
    /\ file_bytes.ocr = <<Text(Chars(" x\n")), Text(<<>>)>>
    /\ ex.result = Chars(" x\n\n")

\* C4: with a trimmed text layer of at most 50 characters and a failing
\* rasterization or OCR, the result is exactly the trimmed text layer.
C4_OcrFailureKeepsText ==
    (ExDone /\ Len(TextLayer(file_bytes)) <= Threshold /\ OcrFails(file_bytes))
        => ex.returned /\ ex.result = TextLayer(file_bytes)

\* OCR fails at its second page after a nonempty first one; the 24-character
\* trimmed text layer is returned alone.
C4_Witness ==
    /\ ExDone /\ ex.returned
    /\ file_bytes.pages = <<Text(B24)>>
    /\ file_bytes.ocr = <<Text(Chars(" x\n")), Raise>>
    /\ ex.ocr_calls = 2
    /\ ex.result = Rep("b", 24)

\* C10: when the text-layer stage raises, nothing is propagated, the chunks
\* collected so far are discarded and the text layer is empty, the OCR stage
\* is attempted, and the result is "" if that stage fails too.
C10_TextFailureFallsThrough ==
    TextFails(file_bytes) =>
        /\ ~ex.raised
        /\ ex.pc \notin {"open", "text_pages"} => ex.text_chunks = <<>>
        /\ ex.pc \notin {"open", "text_pages", "join"}
            => ex.text_from_text_layer = <<>>
        /\ ExDone =>
            /\ ex.returned /\ ex.raster_calls = 1
            /\ OcrFails(file_bytes) => ex.result = <<>>

\* The third page raises after two pages of 25 characters; OCR fails too.
C10_Witness ==
    /\ ExDone /\ ex.returned
    /\ file_bytes.pages = <<Text(A25), Text(A25), Raise>>
    /\ ~file_bytes.raster
    /\ ex.raster_calls = 1
    /\ ex.result = <<>>

----------------------------------------------------------------------------
(* Properties of parse_filename, checked under SpecParse.                  *)

HasChar(s, c) == \E i \in 1..Len(s) : s[i] = c

CountOf(s, c) == Cardinality({i \in 1..Len(s) : s[i] = c})

\* stem is fn without its last '.'-delimited segment (fn itself without '.').
IsStemOf(stem, fn) ==
    IF ~HasChar(fn, ".") THEN stem = fn
    ELSE /\ Len(stem) < Len(fn)
         /\ SubSeq(fn, 1, Len(stem)) = stem
         /\ fn[Len(stem) + 1] = "."
         /\ ~HasChar(SubSeq(fn, Len(stem) + 2, Len(fn)), ".")

\* C5: with fewer than 3 '_'-segments in the stem the result is
\* ("", "unknown", stem); otherwise client_id and doc_type are the first two
\* segments and client_id + '_' + doc_type + '_' + label is the stem; the
\* documented examples parse as documented.
C5_ParseFilename ==
    parsed # <<>> =>
        /\ Len(parsed) = 3
        /\ \/ /\ IsStemOf(parsed[3], filename)
              /\ CountOf(parsed[3], "_") < 2
              /\ parsed[1] = <<>>
              /\ parsed[2] = Chars("unknown")
           \/ /\ IsStemOf(parsed[1] \o <<"_">> \o parsed[2] \o <<"_">>
                              \o parsed[3], filename)
              /\ ~HasChar(parsed[1], "_")
              /\ ~HasChar(parsed[2], "_")
        /\ filename = Example1
            => parsed = <<Chars("SC"), Chars("payslip"), Chars("2025-03")>>
        /\ filename = Example2
            => parsed = <<Chars("SC"), Chars("statement"),
                          Chars("2025-03-08_2025-04-08")>>
        /\ filename = Example3
            => parsed = <<<<>>, Chars("unknown"), Chars("randomfile")>>

\* The statement example has been parsed, its two-part label kept whole.
C5_Witness ==
    /\ filename = Example2
    /\ parsed = <<Chars("SC"), Chars("statement"),
                  Chars("2025-03-08_2025-04-08")>>

----------------------------------------------------------------------------
(* Properties of main, checked under SpecMain.                             *)

NFiles == Len(uploaded_files)

\* The client_id, doc_type and label of each upload, in upload order.
ClientIds == [i \in 1..NFiles |-> parse_filename(uploaded_files[i].name)[1]]

\* The first non-empty client_id in upload order, else the sentinel.
FirstClient ==
    IF \E i \in 1..NFiles : ClientIds[i] # <<>>
    THEN ClientIds[CHOOSE i \in 1..NFiles :
                       /\ ClientIds[i] # <<>>
                       /\ \A j \in 1..(i - 1) : ClientIds[j] = <<>>]
    ELSE UnknownClient

AfterLoop == pc \in {"partition", "render", "done"}

\* C6: after the per-file loop client_id_global is the first non-empty
\* client_id in upload order, or "UNKNOWN_CLIENT" when there is none; once
\* non-empty it never changes.
C6_FirstClientWins ==
    /\ [](AfterLoop => client_id_global = FirstClient)
    /\ [][client_id_global # <<>> => client_id_global' = client_id_global]_vars

\* The first upload has no client id, the second is JD's, the third SC's.
C6_Witness ==
    /\ pc = "done"
    /\ ClientIds = <<<<>>, Chars("JD"), Chars("SC")>>
    /\ client_id_global = Chars("JD")

\* Upload i carries a client id other than the resolved one.
Mismatch(i) == ClientIds[i] # <<>> /\ ClientIds[i] # FirstClient

\* The warnings due for the uploads before the n-th, in upload order.
RECURSIVE WarningsDue(_)
WarningsDue(n) ==
    IF n <= 1 THEN <<>>
    ELSE WarningsDue(n - 1)
            \o IF Mismatch(n - 1)
               THEN <<MixedWarning(FirstClient, ClientIds[n - 1])>>
               ELSE <<>>

\* C7: the warnings issued are at every point one for each upload handled so
\* far whose client_id is non-empty and differs from the resolved id, and no
\* other; the run is never aborted: the extraction of the next file returns,
\* and the run ends with every file extracted and the artifact and download
\* name keyed on the first-seen client id.
C7_WarningsNeverAbort ==
    /\ pc # "aborted"
    /\ pc \in {"start", "returned", "loop", "partition", "render", "done"}
    /\ pc = "loop" =>
            /\ idx \in 1..(NFiles + 1)
            /\ Len(docs) = idx - 1
            /\ idx <= NFiles =>
                   LET call == extract_text_from_pdf(uploaded_files[idx].pdf)
                   IN  call.returned /\ ~call.raised
    /\ pc = "loop" => warnings = WarningsDue(idx)
    /\ AfterLoop => warnings = WarningsDue(NFiles + 1)
    /\ pc = "done" =>
            /\ Len(warnings) = Cardinality({i \in 1..NFiles : Mismatch(i)})
            /\ Len(docs) = NFiles
            /\ \A i \in 1..NFiles :
                   /\ docs[i].filename = uploaded_files[i].name
                   /\ docs[i].text
                        = extract_text_from_pdf(uploaded_files[i].pdf).result
            /\ HasPrefix(final_text, Chars("CLIENT_ID: ") \o FirstClient \o NL)
            /\ file_name = FirstClient \o Chars("_precheck_input.txt")

\* SC's file, then JD's, then one without client id: one warning, output
\* keyed on SC.
C7_Witness ==
    /\ pc = "done"
    /\ ClientIds = <<Chars("SC"), Chars("JD"), <<>>>>
    /\ warnings = <<Chars("Mixed client IDs detected in filenames: SC and JD.")>>
    /\ file_name = Chars("SC_precheck_input.txt")

OfType(t) == SelectSeq(docs, LAMBDA d : d.doc_type = t)

NotOfTypes(ts) == SelectSeq(docs, LAMBDA d : d.doc_type \notin ts)

\* The place of ds[p] in the stable ascending sort of ds by label.
Rank(ds, p) ==
    Cardinality({q \in 1..Len(ds) : StrLess(ds[q].label, ds[p].label)})
        + Cardinality({q \in 1..p : ds[q].label = ds[p].label})

StableSorted(ds, out) ==
    /\ Len(out) = Len(ds)
    /\ \A p \in 1..Len(ds) : out[Rank(ds, p)] = ds[p]
    /\ \A j, k \in 1..Len(out) :
           j < k => ~StrLess(out[k].label, out[j].label)

BlockHead(kind, n, d) ==
    Chars("\n\n[") \o kind \o Chars(" ") \o Str(n) \o Chars(" ") \o EnDash
        \o Chars(" LABEL: ") \o d.label \o Chars(" ") \o EnDash
        \o Chars(" FILE: ") \o d.filename \o Chars("]\n")

\* C8: payslips and statements are each in ascending label order, equal
\* labels in upload order, the other documents in upload order, and the
\* blocks of each group are numbered 1, 2, ... in that order.
C8_SortedAndNumbered ==
    /\ pc \in {"render", "done"} =>
        /\ StableSorted(OfType(Chars("payslip")), payslips)
        /\ StableSorted(OfType(Chars("statement")), statements)
        /\ others = NotOfTypes({Chars("payslip"), Chars("statement")})
    /\ pc = "done" =>
        /\ \A n \in 1..Len(payslips) :
               HasPrefix(structured_blocks[1 + n],
                         BlockHead(Chars("PAYSLIP"), n, payslips[n]))
        /\ \A n \in 1..Len(statements) :
               HasPrefix(structured_blocks[1 + Len(payslips) + n],
                         BlockHead(Chars("BANK STATEMENT"), n, statements[n]))
        /\ \A n \in 1..Len(others) :
               HasPrefix(structured_blocks[1 + Len(payslips)
                                             + Len(statements) + n],
                         BlockHead(Chars("OTHER DOC"), n, others[n]))

\* Payslips uploaded as 2025-04, 2025-02, 2025-03 are PAYSLIP 1, 2, 3 in the
\* order 2025-02, 2025-03, 2025-04.
C8_Witness ==
    /\ pc = "done"
    /\ [i \in 1..NFiles |-> uploaded_files[i].name]
         = <<Chars("SC_payslip_2025-04.pdf"), Chars("SC_payslip_2025-02.pdf"),
             Chars("SC_payslip_2025-03.pdf")>>
    /\ [i \in 1..Len(payslips) |-> payslips[i].label]
         = <<Chars("2025-02"), Chars("2025-03"), Chars("2025-04")>>
    /\ HasPrefix(structured_blocks[2], Chars("\n\n[PAYSLIP 1 "))
    /\ HasPrefix(structured_blocks[4], Chars("\n\n[PAYSLIP 3 "))

Count(ds, d) == Cardinality({i \in 1..Len(ds) : ds[i] = d})

NOfType(t) == Cardinality({i \in 1..Len(docs) : docs[i].doc_type = t})

\* C9: the artifact is the CLIENT_ID header line, then the payslip blocks,
\* the statement blocks and the other blocks, one block per upload; a
\* document is a payslip iff its doc_type is exactly "payslip", a statement
\* iff exactly "statement", and an other document otherwise.
C9_ArtifactLayout ==
    pc = "done" =>
        LET N == NOfType(Chars("payslip"))
            M == NOfType(Chars("statement"))
        IN  /\ structured_blocks[1]
                 = Chars("CLIENT_ID: ") \o client_id_global \o NL
            /\ HasPrefix(final_text, structured_blocks[1])
            /\ Len(structured_blocks) = 1 + NFiles
            /\ Len(final_text)
                 = Len(structured_blocks[1])
                     + Len(Concat(Tail(structured_blocks)))
            /\ \A n \in 1..NFiles :
                   HasPrefix(structured_blocks[1 + n],
                             IF n <= N THEN Chars("\n\n[PAYSLIP ")
                             ELSE IF n <= N + M
                                  THEN Chars("\n\n[BANK STATEMENT ")
                                  ELSE Chars("\n\n[OTHER DOC "))
            /\ \A i \in 1..Len(docs) :
                   LET d == docs[i] IN
                   /\ Count(payslips, d) =
                        IF d.doc_type = Chars("payslip")
                        THEN Count(docs, d) ELSE 0
                   /\ Count(statements, d) =
                        IF d.doc_type = Chars("statement")
                        THEN Count(docs, d) ELSE 0
                   /\ Count(others, d) =
                        IF d.doc_type \notin {Chars("payslip"),
                                              Chars("statement")}
                        THEN Count(docs, d) ELSE 0

\* A "Payslip" (capital P), a statement and a payslip: three blocks, the
\* capitalised one among the other documents.
C9_Witness ==
    /\ pc = "done"
    /\ [i \in 1..NFiles |-> uploaded_files[i].name]
         = <<Chars("_Payslip_x.pdf"),
             Chars("SC_statement_2025-03-08_2025-04-08.pdf"),
             Chars("SC_payslip_2025-04.pdf")>>
    /\ Len(payslips) = 1 /\ Len(statements) = 1 /\ Len(others) = 1
    /\ others[1].doc_type = Chars("Payslip")
    /\ HasPrefix(structured_blocks[4], Chars("\n\n[OTHER DOC 1 "))

=============================================================================
